---- MODULE Spec2Model ----
(***************************************************************************)
(* Model of the anymo-be chat service (src/main.go): the HTTP handlers     *)
(* getChats, getChat, createChat, updateChat, deleteChat and processChat,  *)
(* the two retrying ML client wrappers analyzeSuicideRisk and              *)
(* analyzeSentiment, and the chats table they read and write.              *)
(*                                                                         *)
(* Every handler runs in its own goroutine; Procs are the goroutines that  *)
(* serve requests concurrently.  A handler that makes several blocking     *)
(* calls (an HTTP attempt, a store statement) is one action per call, so   *)
(* that other handlers interleave between the calls exactly where the      *)
(* program lets them.                                                      *)
(***************************************************************************)
EXTENDS Integers, Sequences, FiniteSets, TLC

\* ------------------------------------------------------------------ bounds
\* Number of requests the service accepts in one behaviour.
MaxRequests == 2
\* Number of createChat requests one behaviour of the creation pipeline
\* alone accepts.
MaxCreates == 1
\* Last value of the wall clock (in clock ticks).
MaxClock == 1
\* Clock ticks per unit of the created_at column: time.Now() is finer than
\* what a TIMESTAMP column keeps.
TicksPerUnit == 2

\* The goroutines serving requests.
Procs == {1, 2}

\* --------------------------------------------------------- program constants
mlAPIMaxRetries == 3

\* The delay between attempts, in seconds.
mlAPIRetryDelay == 2

StatusOK == 200

\* ------------------------------------------------------------- Go pointers
\* A *bool, *int or *string field of a bound request body: nil when the JSON
\* key is absent, else a pointer to the value.
Nil == <<>>

Ptr(v) == <<v>>

IsNil(p) == p = <<>>

Deref(p) == p[1]

\* ------------------------------------------------------------------- Chat
\* The zero value of the Chat struct.
ZeroChat ==
  [id |-> 0, startWithDoctor |-> FALSE, text |-> "", riskScore |-> 0,
   memo |-> "", createdAt |-> 0]

\* What the created_at TIMESTAMP column keeps of a time.Time: the value
\* rounded to the column's resolution.
ToTimestamp(t) == ((2 * t + TicksPerUnit) \div (2 * TicksPerUnit)) * TicksPerUnit

\* Variant: the INSERT leaves the nullable memo column out.
InsertRow_WithoutMemo(c, id) ==
  [id |-> id, startWithDoctor |-> c.startWithDoctor, text |-> c.text,
   riskScore |-> c.riskScore, memo |-> "",
   createdAt |-> ToTimestamp(c.createdAt)]

\* Variant: the INSERT writes the row before its enrichment, the risk score
\* and the memo being left to a later statement.
InsertRow_BeforeEnrichment(c, id) ==
  [id |-> id, startWithDoctor |-> c.startWithDoctor, text |-> c.text,
   riskScore |-> 0, memo |-> "",
   createdAt |-> ToTimestamp(c.createdAt)]

\* The row the INSERT statement writes for chat, with the id the SERIAL
\* column assigns.
InsertRow(c, id) ==
  [id |-> id, startWithDoctor |-> c.startWithDoctor, text |-> c.text,
   riskScore |-> c.riskScore, memo |-> c.memo,
   createdAt |-> ToTimestamp(c.createdAt)]

\* ---------------------------------------------------------- request bodies
\* A JSON body as ShouldBindJSON sees it: ok is FALSE for a body that does
\* not bind (malformed JSON, a field of the wrong type).
\* Every field is nil when its key is absent.
Body(swd, text, rs, memo) ==
  [ok |-> TRUE, startWithDoctor |-> swd, text |-> text, riskScore |-> rs,
   memo |-> memo, createdAt |-> Nil]

BadBody ==
  [ok |-> FALSE, startWithDoctor |-> Nil, text |-> Nil, riskScore |-> Nil,
   memo |-> Nil, createdAt |-> Nil]

NoBody == Body(Nil, Nil, Nil, Nil)

\* body with a createdAt key added: the input structs of createChat and
\* updateChat have no such field, the key binds to nothing.
WithCreatedAt(body, createdAt) == [body EXCEPT !.createdAt = Ptr(createdAt)]

\* The bodies of POST /chats: every combination of absent and present fields.
CreateBodies ==
  {BadBody} \cup
  { Body(swd, text, rs, memo) :
      swd \in {Nil, Ptr(TRUE)},
      text \in {Nil, Ptr(""), Ptr("hello")},
      rs \in {Nil, Ptr(7)},
      memo \in {Nil, Ptr(""), Ptr("note")} }

\* ------------------------------------------------------------ ML service
\* What one http.Post to the ML API can give: a transport error (no
\* response), a response with a non-200 status, or a 200 response whose body
\* decodes to a value (body = <<r>>, r the decoded struct) or does not decode (body = <<>>).
Reply(err, status, body) == [err |-> err, status |-> status, body |-> body]

\* The structs the two response bodies decode into.
SuicideRiskResponse(score) == [score |-> score]

SentimentResponse(sentiment) == [sentiment |-> sentiment]

\* The field the wrapper returns from the decoded struct: riskResponse.Score
\* or sentimentResponse.Sentiment.
ResultOf(r) == IF "score" \in DOMAIN r THEN r.score ELSE r.sentiment

FailedReplies == {Reply("transport", 0, <<>>), Reply("nil", 500, <<>>)}

RiskReplies ==
  FailedReplies \cup
  {Reply("nil", StatusOK, b) :
     b \in {<<>>, <<SuicideRiskResponse(0)>>, <<SuicideRiskResponse(88)>>}}

SentimentReplies ==
  FailedReplies \cup
  {Reply("nil", StatusOK, b) : b \in {<<>>, <<SentimentResponse("negative")>>}}

\* The locals of one call of a client wrapper: the loop counter i, err and
\* resp of the last attempt, and what the call has done so far (posts:
\* http.Post calls issued, sleeps: time.Sleep calls made).  state is "loop"
\* while the for loop runs and "returned" once the function has returned.
NewFrame(fn) ==
  [fn |-> fn, i |-> 0, posts |-> 0, sleeps |-> 0, err |-> "nil",
   status |-> 0, body |-> <<>>, state |-> "loop"]

NoFrame == NewFrame("")

\* The frame of the call of fn in progress, or a new one when fn is entered.
CallFrame(w, fn) == IF w.fn = fn /\ w.state = "loop" THEN w ELSE NewFrame(fn)

\* Variant: the loop stops at the first response, whatever its status.
AttemptSucceeded_AnyResponse(o) == o.err = "nil"

\* The loop's exit test: err == nil && resp.StatusCode == http.StatusOK.
AttemptSucceeded(o) == o.err = "nil" /\ o.status = StatusOK

\* Variant: the loop sleeps after every failed attempt, the last included.
SleepsAfterAttempt_Always(i) == i < mlAPIMaxRetries

\* The guard of time.Sleep in the loop body: i < mlAPIMaxRetries-1.
SleepsAfterAttempt(i) == i < mlAPIMaxRetries - 1

\* Variant: the loop runs once more (<= for <).
LoopCondition_OffByOne(i) == i <= mlAPIMaxRetries

\* The loop condition: i < mlAPIMaxRetries.
LoopCondition(i) == i < mlAPIMaxRetries

\* Variant: when the last attempt has failed the loop starts over.
RetryLoopBody_StartsOver(w, o) ==
  LET posted == [w EXCEPT !.posts = @ + 1, !.err = o.err,
                          !.status = o.status, !.body = o.body]
  IN IF AttemptSucceeded(o)
       THEN [posted EXCEPT !.state = "returned"]
       ELSE IF LoopCondition(w.i + 1)
         THEN [posted EXCEPT
                 !.sleeps = IF SleepsAfterAttempt(w.i) THEN @ + 1 ELSE @,
                 !.i = @ + 1]
         ELSE NewFrame(w.fn)

\* One iteration of the retry loop from frame w, when http.Post gives o.
RetryLoopBody(w, o) ==
  LET posted == [w EXCEPT !.posts = @ + 1, !.err = o.err,
                          !.status = o.status, !.body = o.body]
  IN IF AttemptSucceeded(o)
       THEN [posted EXCEPT !.state = "returned"]
       ELSE [posted EXCEPT
               !.sleeps = IF SleepsAfterAttempt(w.i) THEN @ + 1 ELSE @,
               !.i = @ + 1,
               !.state = IF LoopCondition(w.i + 1) THEN "loop" ELSE "returned"]

\* The code after the loop: the (value, error) pair the wrapper returns.
\* zero is the zero value of the result type.
AnalyzeReturn(w, zero) ==
  IF w.err # "nil" THEN [val |-> zero, err |-> "attempts"]
  ELSE IF w.status # StatusOK THEN [val |-> zero, err |-> "status"]
  ELSE IF w.body = <<>> THEN [val |-> zero, err |-> "decode"]
  ELSE [val |-> ResultOf(w.body[1]), err |-> "nil"]

NoResult(zero) == [val |-> zero, err |-> "nil"]

\* --------------------------------------------------- createChat's decisions
\* Variant: chat.CreatedAt is the time left until MaxClock, so that a later
\* reading gives an earlier value.
NewChat_TimeLeft(body, now) ==
  [ZeroChat EXCEPT
     !.createdAt = MaxClock - now,
     !.text = IF IsNil(body.text) THEN "" ELSE Deref(body.text),
     !.startWithDoctor =
        IF ~IsNil(body.startWithDoctor) THEN Deref(body.startWithDoctor)
        ELSE FALSE]

\* The Chat createChat builds from a bound body at time now.
NewChat(body, now) ==
  [ZeroChat EXCEPT
     !.createdAt = now,
     !.text = IF IsNil(body.text) THEN "" ELSE Deref(body.text),
     !.startWithDoctor =
        IF ~IsNil(body.startWithDoctor) THEN Deref(body.startWithDoctor)
        ELSE FALSE]

\* Variant: a riskScore the caller supplied takes precedence over the API's.
MergeRiskScore_CallerFirst(r, inputRiskScore) ==
  IF ~IsNil(inputRiskScore) THEN Deref(inputRiskScore)
  ELSE IF r.err # "nil" THEN 0 ELSE r.val

\* Variant: a failed risk call always leaves the default score.
MergeRiskScore_NoFallback(r, inputRiskScore) ==
  IF r.err # "nil" THEN 0 ELSE r.val

\* chat.RiskScore after the risk call returned r.
MergeRiskScore(r, inputRiskScore) ==
  IF r.err # "nil"
    THEN IF ~IsNil(inputRiskScore) THEN Deref(inputRiskScore) ELSE 0
    ELSE r.val

\* Variant: the sentiment replaces the caller's memo instead of joining it.
MergeMemo_DropsCallerMemo(r, inputMemo) ==
  IF r.err # "nil"
    THEN IF ~IsNil(inputMemo) THEN Deref(inputMemo) ELSE ""
    ELSE "Sentiment: " \o r.val

\* Variant: the memo is formatted from the sentiment also when the call
\* failed and the caller sent no memo.
MergeMemo_FormatsOnFailure(r, inputMemo) ==
  IF r.err # "nil" /\ ~IsNil(inputMemo)
    THEN Deref(inputMemo)
    ELSE IF ~IsNil(inputMemo) /\ Deref(inputMemo) # ""
           THEN "Sentiment: " \o r.val \o " | " \o Deref(inputMemo)
           ELSE "Sentiment: " \o r.val

\* chat.Memo after the sentiment call returned r.
MergeMemo(r, inputMemo) ==
  IF r.err # "nil"
    THEN IF ~IsNil(inputMemo) THEN Deref(inputMemo) ELSE ""
    ELSE IF ~IsNil(inputMemo) /\ Deref(inputMemo) # ""
           THEN "Sentiment: " \o r.val \o " | " \o Deref(inputMemo)
           ELSE "Sentiment: " \o r.val

\* ---------------------------------------------------------------- responses
Response(status, body) == [status |-> status, body |-> body]

NoResponse == Response(0, <<>>)

\* ------------------------------------------------------------ chats table
\* main() creates the table only if it does not exist: the service starts on
\* the rows earlier runs left.  Row1 is what createChat writes for a body
\* with text alone when both analyses succeed, Row2 what it writes for a
\* body with every field when both fail.
Row1 ==
  [id |-> 1, startWithDoctor |-> FALSE, text |-> "hello", riskScore |-> 88,
   memo |-> "Sentiment: negative", createdAt |-> 0]

Row2 ==
  [id |-> 2, startWithDoctor |-> TRUE, text |-> "hello", riskScore |-> 7,
   memo |-> "note", createdAt |-> 0]

InitialTables == {<<>>, <<Row1>>, <<Row1, Row2>>}

\* ------------------------------------------------------------------- state
VARIABLES
  store,    \* the chats table: id -> row
  nextId,   \* the next value of the id column's sequence
  clock,    \* the latest reading of time.Now()
  served,   \* requests accepted so far
  handled,  \* per goroutine: requests it has picked up
  touched,  \* ids an UPDATE or DELETE statement has changed
  deleted,  \* ids deleteChat has answered 200 for
  pc,       \* per goroutine: where its handler stands ("idle": none running)
  op,       \* per goroutine: the handler it runs or ran last
  id,       \* per goroutine: the :id path parameter
  input,    \* per goroutine: the bound request body
  chat,     \* per goroutine: createChat's chat, updateChat's existingChat
  ml,       \* per goroutine: the frame of the current client wrapper call
  slept,    \* per goroutine: time.Sleep calls made for the current request
  risk,     \* per goroutine: what analyzeSuicideRisk returned
  sent,     \* per goroutine: what analyzeSentiment returned
  dbErr,    \* per goroutine: err of the handler's last store call
  resp      \* per goroutine: the response written by c.JSON

vars ==
  <<store, nextId, clock, served, handled, touched, deleted, pc, op, id, input, chat,
    ml, slept, risk, sent, dbErr, resp>>

storeVars == <<store, nextId, touched, deleted>>

acceptVars == <<served, handled>>

Init ==
  /\ store \in InitialTables
  /\ nextId = Cardinality(DOMAIN store) + 1
  /\ clock = 0
  /\ served = 0
  /\ handled = [p \in Procs |-> 0]
  /\ touched = {}
  /\ deleted = {}
  /\ pc = [p \in Procs |-> "idle"]
  /\ op = [p \in Procs |-> "none"]
  /\ id = [p \in Procs |-> 0]
  /\ input = [p \in Procs |-> NoBody]
  /\ chat = [p \in Procs |-> ZeroChat]
  /\ ml = [p \in Procs |-> NoFrame]
  /\ slept = [p \in Procs |-> 0]
  /\ risk = [p \in Procs |-> NoResult(0)]
  /\ sent = [p \in Procs |-> NoResult("")]
  /\ dbErr = [p \in Procs |-> "nil"]
  /\ resp = [p \in Procs |-> NoResponse]

\* A goroutine picks up a request for handler h with path parameter i and
\* body b: the handler's locals are fresh.
Accept(p, h, i, b) ==
  /\ pc[p] = "idle"
  /\ served' = served + 1
  /\ handled' = [handled EXCEPT ![p] = @ + 1]
  /\ op' = [op EXCEPT ![p] = h]
  /\ id' = [id EXCEPT ![p] = i]
  /\ input' = [input EXCEPT ![p] = b]
  /\ slept' = [slept EXCEPT ![p] = 0]
  /\ risk' = [risk EXCEPT ![p] = NoResult(0)]
  /\ sent' = [sent EXCEPT ![p] = NoResult("")]

\* ------------------------------------------------------------- createChat
\* Variant: createChat without the check of the required field.
CreateChatBind_NoTextCheck(p, body, now) ==
  /\ Accept(p, "createChat", 0, body)
  /\ ml' = [ml EXCEPT ![p] = NoFrame]
  /\ dbErr' = [dbErr EXCEPT ![p] = "nil"]
  /\ IF ~body.ok
       THEN /\ chat' = [chat EXCEPT ![p] = ZeroChat]
            /\ resp' = [resp EXCEPT ![p] = Response(400, <<>>)]
            /\ UNCHANGED pc
       ELSE /\ chat' = [chat EXCEPT ![p] = NewChat(body, now)]
            /\ resp' = [resp EXCEPT ![p] = NoResponse]
            /\ pc' = [pc EXCEPT ![p] = "risk"]
  /\ clock' = IF body.ok THEN now ELSE clock
  /\ UNCHANGED storeVars

\* createChat up to its first blocking call: bind the body, build chat
\* (time.Now() reads now, not earlier than the latest reading), check the
\* required field.
CreateChatBind(p, body, now) ==
  /\ Accept(p, "createChat", 0, body)
  /\ ml' = [ml EXCEPT ![p] = NoFrame]
  /\ dbErr' = [dbErr EXCEPT ![p] = "nil"]
  /\ IF ~body.ok
       THEN /\ chat' = [chat EXCEPT ![p] = ZeroChat]
            /\ resp' = [resp EXCEPT ![p] = Response(400, <<>>)]
            /\ UNCHANGED pc
       ELSE /\ chat' = [chat EXCEPT ![p] = NewChat(body, now)]
            /\ IF NewChat(body, now).text = ""
                 THEN /\ resp' = [resp EXCEPT ![p] = Response(400, <<>>)]
                      /\ UNCHANGED pc
                 ELSE /\ resp' = [resp EXCEPT ![p] = NoResponse]
                      /\ pc' = [pc EXCEPT ![p] = "risk"]
  /\ clock' = IF body.ok THEN now ELSE clock
  /\ UNCHANGED storeVars

\* Variant: an error of analyzeSuicideRisk is answered with 500.
AnalyzeSuicideRiskPost_SurfacesError(p, o) ==
  /\ pc[p] = "risk"
  /\ LET w0 == CallFrame(ml[p], "analyzeSuicideRisk")
         w == RetryLoopBody(w0, o)
         r == AnalyzeReturn(w, 0)
     IN /\ ml' = [ml EXCEPT ![p] = w]
        /\ slept' = [slept EXCEPT ![p] = @ + w.sleeps - w0.sleeps]
        /\ IF w.state = "loop"
             THEN UNCHANGED <<pc, risk, chat, resp>>
             ELSE /\ risk' = [risk EXCEPT ![p] = r]
                  /\ IF r.err # "nil"
                       THEN /\ resp' = [resp EXCEPT ![p] = Response(500, <<>>)]
                            /\ pc' = [pc EXCEPT ![p] = "idle"]
                            /\ UNCHANGED chat
                       ELSE /\ chat' = [chat EXCEPT ![p].riskScore = r.val]
                            /\ pc' = [pc EXCEPT ![p] = "sentiment"]
                            /\ UNCHANGED resp
  /\ UNCHANGED <<storeVars, clock, acceptVars, op, id, input, sent, dbErr>>

\* Variant: after a failed risk call createChat goes straight to the INSERT.
AnalyzeSuicideRiskPost_SkipsSentiment(p, o) ==
  /\ pc[p] = "risk"
  /\ LET w0 == CallFrame(ml[p], "analyzeSuicideRisk")
         w == RetryLoopBody(w0, o)
         r == AnalyzeReturn(w, 0)
     IN /\ ml' = [ml EXCEPT ![p] = w]
        /\ slept' = [slept EXCEPT ![p] = @ + w.sleeps - w0.sleeps]
        /\ IF w.state = "loop"
             THEN UNCHANGED <<pc, risk, chat>>
             ELSE /\ risk' = [risk EXCEPT ![p] = r]
                  /\ chat' = [chat EXCEPT ![p].riskScore =
                                MergeRiskScore(r, input[p].riskScore)]
                  /\ pc' = [pc EXCEPT ![p] =
                              IF r.err # "nil" THEN "insert" ELSE "sentiment"]
  /\ UNCHANGED <<storeVars, clock, acceptVars, op, id, input, sent, dbErr, resp>>

\* One http.Post of analyzeSuicideRisk and the loop iteration around it;
\* when the loop ends, the wrapper returns and createChat sets
\* chat.RiskScore.
AnalyzeSuicideRiskPost(p, o) ==
  /\ pc[p] = "risk"
  /\ LET w0 == CallFrame(ml[p], "analyzeSuicideRisk")
         w == RetryLoopBody(w0, o)
         r == AnalyzeReturn(w, 0)
     IN /\ ml' = [ml EXCEPT ![p] = w]
        /\ slept' = [slept EXCEPT ![p] = @ + w.sleeps - w0.sleeps]
        /\ IF w.state = "loop"
             THEN UNCHANGED <<pc, risk, chat>>
             ELSE /\ risk' = [risk EXCEPT ![p] = r]
                  /\ chat' = [chat EXCEPT ![p].riskScore =
                                MergeRiskScore(r, input[p].riskScore)]
                  /\ pc' = [pc EXCEPT ![p] = "sentiment"]
  /\ UNCHANGED <<storeVars, clock, acceptVars, op, id, input, sent, dbErr, resp>>

\* Variant: a failed sentiment call also puts chat.RiskScore back to its
\* default.
AnalyzeSentimentPost_ClearsRiskScore(p, o) ==
  /\ pc[p] = "sentiment"
  /\ LET w0 == CallFrame(ml[p], "analyzeSentiment")
         w == RetryLoopBody(w0, o)
         r == AnalyzeReturn(w, "")
     IN /\ ml' = [ml EXCEPT ![p] = w]
        /\ slept' = [slept EXCEPT ![p] = @ + w.sleeps - w0.sleeps]
        /\ IF w.state = "loop"
             THEN UNCHANGED <<pc, sent, chat>>
             ELSE /\ sent' = [sent EXCEPT ![p] = r]
                  /\ chat' = [chat EXCEPT
                                ![p].memo = MergeMemo(r, input[p].memo),
                                ![p].riskScore = IF r.err # "nil" THEN 0 ELSE @]
                  /\ pc' = [pc EXCEPT ![p] = "insert"]
  /\ UNCHANGED <<storeVars, clock, acceptVars, op, id, input, risk, dbErr, resp>>

\* One http.Post of analyzeSentiment and the loop iteration around it; when
\* the loop ends, the wrapper returns and createChat sets chat.Memo.
AnalyzeSentimentPost(p, o) ==
  /\ pc[p] = "sentiment"
  /\ LET w0 == CallFrame(ml[p], "analyzeSentiment")
         w == RetryLoopBody(w0, o)
         r == AnalyzeReturn(w, "")
     IN /\ ml' = [ml EXCEPT ![p] = w]
        /\ slept' = [slept EXCEPT ![p] = @ + w.sleeps - w0.sleeps]
        /\ IF w.state = "loop"
             THEN UNCHANGED <<pc, sent, chat>>
             ELSE /\ sent' = [sent EXCEPT ![p] = r]
                  /\ chat' = [chat EXCEPT ![p].memo =
                                MergeMemo(r, input[p].memo)]
                  /\ pc' = [pc EXCEPT ![p] = "insert"]
  /\ UNCHANGED <<storeVars, clock, acceptVars, op, id, input, risk, dbErr, resp>>

\* The INSERT ... RETURNING id statement and the response.  dbOk is FALSE
\* when the store reports an error.
CreateChatInsert(p, dbOk) ==
  /\ pc[p] = "insert"
  /\ pc' = [pc EXCEPT ![p] = "idle"]
  /\ ml' = [ml EXCEPT ![p] = NoFrame]
  /\ IF dbOk
       THEN /\ store' = store @@ (nextId :> InsertRow(chat[p], nextId))
            /\ nextId' = nextId + 1
            /\ chat' = [chat EXCEPT ![p].id = nextId]
            /\ dbErr' = [dbErr EXCEPT ![p] = "nil"]
            /\ resp' = [resp EXCEPT ![p] =
                          Response(201, <<[chat[p] EXCEPT !.id = nextId]>>)]
       ELSE /\ dbErr' = [dbErr EXCEPT ![p] = "error"]
            /\ resp' = [resp EXCEPT ![p] = Response(500, <<>>)]
            /\ UNCHANGED <<store, nextId, chat>>
  /\ UNCHANGED <<touched, deleted, clock, acceptVars, op, id, input, slept, risk,
                 sent>>

\* ---------------------------------------------------------------- getChat
\* SELECT ... WHERE id = $1 and the response.
GetChat(p, i, dbOk) ==
  /\ Accept(p, "getChat", i, NoBody)
  /\ ml' = [ml EXCEPT ![p] = NoFrame]
  /\ IF ~dbOk
       THEN /\ dbErr' = [dbErr EXCEPT ![p] = "error"]
            /\ chat' = [chat EXCEPT ![p] = ZeroChat]
            /\ resp' = [resp EXCEPT ![p] = Response(500, <<>>)]
       ELSE IF i \notin DOMAIN store
         THEN /\ dbErr' = [dbErr EXCEPT ![p] = "ErrNoRows"]
              /\ chat' = [chat EXCEPT ![p] = ZeroChat]
              /\ resp' = [resp EXCEPT ![p] = Response(404, <<>>)]
         ELSE /\ dbErr' = [dbErr EXCEPT ![p] = "nil"]
              /\ chat' = [chat EXCEPT ![p] = store[i]]
              /\ resp' = [resp EXCEPT ![p] = Response(200, <<store[i]>>)]
  /\ UNCHANGED <<storeVars, clock, pc>>

\* --------------------------------------------------------------- getChats
\* Variant: the rows come in the order of their ids, oldest insert first.
IsOrdered_ByInsertion(s) ==
  \A j, k \in 1..Len(s) : j < k => s[j].id < s[k].id

\* ORDER BY created_at DESC: rows with equal created_at come in any order.
IsOrdered(s) ==
  \A j, k \in 1..Len(s) : j < k => s[j].createdAt >= s[k].createdAt

\* The results SELECT ... ORDER BY created_at DESC may give for table t.
Listings(t) ==
  LET n == Cardinality(DOMAIN t)
      perms == {f \in [1..n -> DOMAIN t] : \A i \in DOMAIN t : \E k \in 1..n : f[k] = i}
  IN {s \in {[k \in 1..n |-> t[f[k]]] : f \in perms} : IsOrdered(s)}

\* The query, the scan loop and the response.
GetChats(p, rows, dbOk) ==
  /\ Accept(p, "getChats", 0, NoBody)
  /\ ml' = [ml EXCEPT ![p] = NoFrame]
  /\ chat' = [chat EXCEPT ![p] = ZeroChat]
  /\ IF ~dbOk
       THEN /\ dbErr' = [dbErr EXCEPT ![p] = "error"]
            /\ resp' = [resp EXCEPT ![p] = Response(500, <<>>)]
       ELSE /\ dbErr' = [dbErr EXCEPT ![p] = "nil"]
            /\ resp' = [resp EXCEPT ![p] = Response(200, rows)]
  /\ UNCHANGED <<storeVars, clock, pc>>

\* ------------------------------------------------------------- updateChat
\* Variant: the body is bound into plain fields, so that an absent field
\* overwrites with its zero value.
ApplyUpdate_ZeroesAbsent(existing, body) ==
  [existing EXCEPT
     !.startWithDoctor =
        IF ~IsNil(body.startWithDoctor) THEN Deref(body.startWithDoctor) ELSE FALSE,
     !.text = IF ~IsNil(body.text) THEN Deref(body.text) ELSE "",
     !.riskScore = IF ~IsNil(body.riskScore) THEN Deref(body.riskScore) ELSE 0,
     !.memo = IF ~IsNil(body.memo) THEN Deref(body.memo) ELSE ""]

\* existingChat after the fields present in the body replaced its own.
ApplyUpdate(existing, body) ==
  [existing EXCEPT
     !.startWithDoctor =
        IF ~IsNil(body.startWithDoctor) THEN Deref(body.startWithDoctor) ELSE @,
     !.text = IF ~IsNil(body.text) THEN Deref(body.text) ELSE @,
     !.riskScore = IF ~IsNil(body.riskScore) THEN Deref(body.riskScore) ELSE @,
     !.memo = IF ~IsNil(body.memo) THEN Deref(body.memo) ELSE @]

\* Variant: the UPDATE also restamps created_at.
UpdateRow_Restamps(row, c) ==
  [row EXCEPT !.startWithDoctor = c.startWithDoctor, !.text = c.text,
              !.riskScore = c.riskScore, !.memo = c.memo,
              !.createdAt = @ + TicksPerUnit]

\* The row after UPDATE chats SET start_with_doctor, text, risk_score, memo.
UpdateRow(row, c) ==
  [row EXCEPT !.startWithDoctor = c.startWithDoctor, !.text = c.text,
              !.riskScore = c.riskScore, !.memo = c.memo]

\* Variant: the statement writes the row back when no row has the id.
UpdateTable_Upsert(t, i, c) ==
  IF i \in DOMAIN t THEN [t EXCEPT ![i] = UpdateRow(@, c)]
  ELSE [k \in DOMAIN t \cup {i} |-> IF k = i THEN c ELSE t[k]]

\* The table after UPDATE chats SET ... WHERE id = i: a statement that
\* matches no row changes nothing.
UpdateTable(t, i, c) ==
  IF i \in DOMAIN t THEN [t EXCEPT ![i] = UpdateRow(@, c)] ELSE t

\* Variant: a statement that matched no row reports one row affected.
RowsAffected_AlwaysOne(t, i) == 1

\* result.RowsAffected() of a statement WHERE id = i on table t.
RowsAffected(t, i) == IF i \in DOMAIN t THEN 1 ELSE 0

\* updateChat up to the bound body: SELECT the row into existingChat, bind
\* the body.
UpdateChatRead(p, i, body, dbOk) ==
  /\ Accept(p, "updateChat", i, body)
  /\ ml' = [ml EXCEPT ![p] = NoFrame]
  /\ IF ~dbOk
       THEN /\ dbErr' = [dbErr EXCEPT ![p] = "error"]
            /\ chat' = [chat EXCEPT ![p] = ZeroChat]
            /\ resp' = [resp EXCEPT ![p] = Response(500, <<>>)]
            /\ UNCHANGED pc
       ELSE IF i \notin DOMAIN store
         THEN /\ dbErr' = [dbErr EXCEPT ![p] = "ErrNoRows"]
              /\ chat' = [chat EXCEPT ![p] = ZeroChat]
              /\ resp' = [resp EXCEPT ![p] = Response(404, <<>>)]
              /\ UNCHANGED pc
         ELSE /\ dbErr' = [dbErr EXCEPT ![p] = "nil"]
              /\ IF ~body.ok
                   THEN /\ chat' = [chat EXCEPT ![p] = store[i]]
                        /\ resp' = [resp EXCEPT ![p] = Response(400, <<>>)]
                        /\ UNCHANGED pc
                   ELSE /\ chat' = [chat EXCEPT ![p] = store[i]]
                        /\ resp' = [resp EXCEPT ![p] = NoResponse]
                        /\ pc' = [pc EXCEPT ![p] = "update"]
  /\ UNCHANGED <<storeVars, clock>>

\* The rest of updateChat: overwrite the fields the body holds, the
\* UPDATE ... WHERE id = $5 statement, RowsAffected and the response.
UpdateChatWrite(p, dbOk) ==
  LET existingChat == ApplyUpdate(chat[p], input[p])
  IN /\ pc[p] = "update"
     /\ pc' = [pc EXCEPT ![p] = "idle"]
     /\ chat' = [chat EXCEPT ![p] = existingChat]
     /\ IF ~dbOk
          THEN /\ dbErr' = [dbErr EXCEPT ![p] = "error"]
               /\ resp' = [resp EXCEPT ![p] = Response(500, <<>>)]
               /\ UNCHANGED <<store, touched>>
          ELSE /\ dbErr' = [dbErr EXCEPT ![p] = "nil"]
               /\ store' = UpdateTable(store, id[p], existingChat)
               /\ IF RowsAffected(store, id[p]) = 0
                    THEN /\ resp' = [resp EXCEPT ![p] = Response(404, <<>>)]
                         /\ UNCHANGED touched
                    ELSE /\ touched' = touched \cup {id[p]}
                         /\ resp' = [resp EXCEPT ![p] =
                                       Response(200, <<existingChat>>)]
     /\ UNCHANGED <<nextId, deleted, clock, acceptVars, op, id, input, ml, slept,
                    risk, sent>>

\* ------------------------------------------------------------- deleteChat
\* The table without row i.
DeleteRow(t, i) == [k \in DOMAIN t \ {i} |-> t[k]]

\* DELETE FROM chats WHERE id = $1, RowsAffected and the response.
DeleteChat(p, i, dbOk) ==
  /\ Accept(p, "deleteChat", i, NoBody)
  /\ ml' = [ml EXCEPT ![p] = NoFrame]
  /\ chat' = [chat EXCEPT ![p] = ZeroChat]
  /\ IF ~dbOk
       THEN /\ dbErr' = [dbErr EXCEPT ![p] = "error"]
            /\ resp' = [resp EXCEPT ![p] = Response(500, <<>>)]
            /\ UNCHANGED <<store, touched, deleted>>
       ELSE /\ dbErr' = [dbErr EXCEPT ![p] = "nil"]
            /\ IF RowsAffected(store, i) = 0
                 THEN /\ resp' = [resp EXCEPT ![p] = Response(404, <<>>)]
                      /\ UNCHANGED <<store, touched, deleted>>
                 ELSE /\ store' = DeleteRow(store, i)
                      /\ touched' = touched \cup {i}
                      /\ deleted' = deleted \cup {i}
                      /\ resp' = [resp EXCEPT ![p] = Response(200, <<>>)]
  /\ UNCHANGED <<nextId, clock, pc>>

\* ------------------------------------------------------------ processChat
\* The body of a /processChat or /analyze request: three string fields.
ProcessBody(createdAt, text, memo) ==
  [ok |-> TRUE, startWithDoctor |-> Nil, text |-> Ptr(text), riskScore |-> Nil,
   memo |-> Ptr(memo), createdAt |-> Ptr(createdAt)]

\* What the one GenerateContent call can give: an error of the client or of
\* the call (a timeout included), no candidate, a candidate without content
\* (the nil dereference panics and gin's Recovery answers 500), a candidate
\* without text, text that is no JSON object of the schema, or the two
\* fields.
LLMReply(kind, updatedText, startWithDoctor) ==
  [kind |-> kind, updatedText |-> updatedText, startWithDoctor |-> startWithDoctor]

LLMFailures ==
  {"NewClient", "GenerateContent", "noCandidates", "nilContent", "noText",
   "Unmarshal"}

\* Variant: a response without candidates counts as an empty result.
CallLLMDirect_AcceptsNoCandidates(o) ==
  IF o.kind \in LLMFailures \ {"noCandidates"}
    THEN [updatedText |-> "", startWithDoctor |-> FALSE, err |-> o.kind]
    ELSE [updatedText |-> o.updatedText, startWithDoctor |-> o.startWithDoctor,
          err |-> "nil"]

\* (updatedText, startWithDoctor, err) of callLLMDirect when the service
\* gives o.
CallLLMDirect(o) ==
  IF o.kind \in LLMFailures
    THEN [updatedText |-> "", startWithDoctor |-> FALSE, err |-> o.kind]
    ELSE [updatedText |-> o.updatedText, startWithDoctor |-> o.startWithDoctor,
          err |-> "nil"]

\* The frame of callLLMDirect: GenerateContent is called once, unless the
\* client could not be created; body holds what the service gave.
LLMFrame(o) ==
  [NewFrame("callLLMDirect") EXCEPT
     !.posts = IF o.kind = "NewClient" THEN 0 ELSE 1,
     !.err = CallLLMDirect(o).err,
     !.body = <<o>>,
     !.state = "returned"]

\* Variant: processChat saves the processed conversation as a new record.
ProcessChat_Persists(p, body, o) ==
  /\ Accept(p, "processChat", 0, body)
  /\ ml' = [ml EXCEPT ![p] = IF body.ok THEN LLMFrame(o) ELSE NoFrame]
  /\ chat' = [chat EXCEPT ![p] = ZeroChat]
  /\ dbErr' = [dbErr EXCEPT ![p] = "nil"]
  /\ IF ~body.ok
       THEN /\ resp' = [resp EXCEPT ![p] = Response(400, <<>>)]
            /\ UNCHANGED <<store, nextId>>
       ELSE LET r == CallLLMDirect(o)
            IN IF r.err # "nil"
                 THEN /\ resp' = [resp EXCEPT ![p] = Response(500, <<>>)]
                      /\ UNCHANGED <<store, nextId>>
                 ELSE /\ resp' = [resp EXCEPT ![p] =
                             Response(200, <<[createdAt |-> Deref(body.createdAt),
                                              text |-> r.updatedText,
                                              memo |-> Deref(body.memo),
                                              startWithDoctor |-> r.startWithDoctor]>>)]
                      /\ store' = store @@
                           (nextId :> [ZeroChat EXCEPT !.id = nextId,
                                                       !.text = r.updatedText])
                      /\ nextId' = nextId + 1
  /\ UNCHANGED <<touched, deleted, clock, pc>>

\* processChat: bind, call the LLM, answer.
ProcessChat(p, body, o) ==
  /\ Accept(p, "processChat", 0, body)
  /\ ml' = [ml EXCEPT ![p] = IF body.ok THEN LLMFrame(o) ELSE NoFrame]
  /\ chat' = [chat EXCEPT ![p] = ZeroChat]
  /\ dbErr' = [dbErr EXCEPT ![p] = "nil"]
  /\ IF ~body.ok
       THEN resp' = [resp EXCEPT ![p] = Response(400, <<>>)]
       ELSE LET r == CallLLMDirect(o)
            IN IF r.err # "nil"
                 THEN resp' = [resp EXCEPT ![p] = Response(500, <<>>)]
                 ELSE resp' = [resp EXCEPT ![p] =
                        Response(200, <<[createdAt |-> Deref(body.createdAt),
                                         text |-> r.updatedText,
                                         memo |-> Deref(body.memo),
                                         startWithDoctor |-> r.startWithDoctor]>>)]
  /\ UNCHANGED <<storeVars, clock, pc>>

\* ------------------------------------------------------------ the service
\* The request bodies, ids and replies the behaviours of the whole service
\* draw from.
ServiceCreateBodies ==
  {BadBody, Body(Ptr(TRUE), Ptr("hello"), Ptr(7), Ptr("note")),
   WithCreatedAt(Body(Nil, Ptr("hello"), Nil, Nil), "2023-04-11")}

ServiceRiskReplies == {Reply("nil", StatusOK, <<SuicideRiskResponse(88)>>)}

ServiceSentimentReplies ==
  {Reply("nil", StatusOK, <<SentimentResponse("negative")>>)}

UpdateBodies ==
  {BadBody, Body(Nil, Nil, Nil, Ptr("seen")), Body(Nil, Nil, Ptr(101), Nil),
   Body(Ptr(TRUE), Ptr("bye"), Nil, Nil),
   WithCreatedAt(Body(Nil, Nil, Nil, Ptr("seen")), "2023-04-11"),
   Body(Nil, Ptr(""), Nil, Nil)}

ProcessBodies == {BadBody, ProcessBody("2023-04-11", "hello", "note")}

LLMReplies ==
  {LLMReply(k, "", FALSE) : k \in LLMFailures} \cup
  {LLMReply("ok", "hello@@", TRUE)}

\* The ids a request may name: every id assigned so far and the next one.
RequestIds == 1..nextId

CanAccept == served < MaxRequests

\* The whole service: every handler, on concurrent goroutines.
Next ==
  \/ \E p \in Procs, body \in ServiceCreateBodies, now \in clock..MaxClock :
       CanAccept /\ CreateChatBind(p, body, now)
  \/ \E p \in Procs, o \in ServiceRiskReplies : AnalyzeSuicideRiskPost(p, o)
  \/ \E p \in Procs, o \in ServiceSentimentReplies : AnalyzeSentimentPost(p, o)
  \/ \E p \in Procs, dbOk \in BOOLEAN : CreateChatInsert(p, dbOk)
  \/ \E p \in Procs, i \in RequestIds, dbOk \in BOOLEAN :
       CanAccept /\ GetChat(p, i, dbOk)
  \/ \E p \in Procs, dbOk \in BOOLEAN : \E rows \in Listings(store) :
       CanAccept /\ GetChats(p, rows, dbOk)
  \/ \E p \in Procs, i \in RequestIds, body \in UpdateBodies, dbOk \in BOOLEAN :
       CanAccept /\ UpdateChatRead(p, i, body, dbOk)
  \/ \E p \in Procs, dbOk \in BOOLEAN : UpdateChatWrite(p, dbOk)
  \/ \E p \in Procs, i \in RequestIds, dbOk \in BOOLEAN :
       CanAccept /\ DeleteChat(p, i, dbOk)
  \/ \E p \in Procs, body \in ProcessBodies, o \in LLMReplies :
       CanAccept /\ ProcessChat(p, body, o)

Spec == Init /\ [][Next]_vars

\* The creation pipeline alone: one goroutine serving createChat requests,
\* with every body of CreateBodies and every reply of the ML service.
CreateProcs == {1}

CanAcceptCreate == served < MaxCreates

NextCreate ==
  \/ \E p \in CreateProcs, body \in CreateBodies, now \in clock..MaxClock :
       CanAcceptCreate /\ CreateChatBind(p, body, now)
  \/ \E p \in CreateProcs, o \in RiskReplies : AnalyzeSuicideRiskPost(p, o)
  \/ \E p \in CreateProcs, o \in SentimentReplies : AnalyzeSentimentPost(p, o)
  \/ \E p \in CreateProcs, dbOk \in BOOLEAN : CreateChatInsert(p, dbOk)

SpecCreate == Init /\ [][NextCreate]_vars

\* The creation pipeline when every blocking call returns: an http.Post in
\* progress gives its reply or its error, the INSERT gives its result, and
\* the handler goes on.
\* Where each handler stands: every step of a handler changes its pc or
\* adds an attempt to its wrapper call.
stepVars == <<pc, [q \in Procs |-> <<ml[q].fn, ml[q].posts>>]>>

FairCreate ==
  \A p \in CreateProcs :
    /\ WF_stepVars(\E o \in RiskReplies : AnalyzeSuicideRiskPost(p, o))
    /\ WF_stepVars(\E o \in SentimentReplies : AnalyzeSentimentPost(p, o))
    /\ WF_stepVars(\E dbOk \in BOOLEAN : CreateChatInsert(p, dbOk))

SpecCreateLive == SpecCreate /\ FairCreate

\* Two creation requests, one after the other, each on its own goroutine:
\* goroutine p picks up its request when the goroutines before it have
\* answered theirs.  Each field of the body is absent or present, each
\* attempt of either analysis call fails or succeeds.
PairBodies ==
  { Body(Nil, Ptr("hello"), rs, memo) :
      rs \in {Nil, Ptr(7)}, memo \in {Nil, Ptr("note")} }

PairRiskReplies ==
  {Reply("nil", 500, <<>>), Reply("nil", StatusOK, <<SuicideRiskResponse(88)>>)}

PairSentimentReplies ==
  {Reply("nil", 500, <<>>),
   Reply("nil", StatusOK, <<SentimentResponse("negative")>>)}

CanAcceptPair(p) ==
  /\ handled[p] = 0
  /\ \A q \in Procs : q < p => pc[q] = "idle" /\ handled[q] = 1

NextPair ==
  \/ \E p \in Procs, body \in PairBodies :
       CanAcceptPair(p) /\ CreateChatBind(p, body, clock)
  \/ \E p \in Procs, o \in PairRiskReplies : AnalyzeSuicideRiskPost(p, o)
  \/ \E p \in Procs, o \in PairSentimentReplies : AnalyzeSentimentPost(p, o)
  \/ \E p \in Procs : CreateChatInsert(p, TRUE)

SpecPair == Init /\ [][NextPair]_vars

\* ================================================================= claims
\* createChat of goroutine p has answered 201: resp[p] holds the Chat it
\* returned.
Created(p) ==
  pc[p] = "idle" /\ op[p] = "createChat" /\ resp[p].status = 201

\* The Chat in the body of p's response.
Returned(p) == resp[p].body[1]

\* The row createChat of p inserted is in the table as inserted: no UPDATE
\* or DELETE has changed it since.
InsertedRowKept(p) ==
  Returned(p).id \in DOMAIN store /\ Returned(p).id \notin touched

\* The record createChat of p inserted.
Inserted(p) == store[Returned(p).id]

\* C1: whenever analyzeSuicideRisk returned without error, the riskScore of
\* the record createChat inserted is the score it returned, whether the
\* caller's body held a riskScore or not.
C1_RiskScoreFromService ==
  \A p \in Procs :
    (Created(p) /\ risk[p].err = "nil" /\ Returned(p).id \notin touched) =>
      /\ Returned(p).id \in DOMAIN store
      /\ Inserted(p).riskScore = risk[p].val

\* The API scored 88, the caller sent riskScore 7, and 88 is stored.
C1_Witness ==
  \E p \in Procs :
    /\ Created(p) /\ InsertedRowKept(p)
    /\ risk[p].err = "nil" /\ risk[p].val = 88
    /\ input[p].riskScore = Ptr(7)
    /\ Inserted(p).riskScore = 88

\* C2: whenever analyzeSentiment returned label L without error, the memo of
\* the inserted record is "Sentiment: L | M" for a non-empty caller memo M
\* and "Sentiment: L" for an absent or empty one.
C2_MemoFromSentiment ==
  \A p \in Procs :
    (Created(p) /\ sent[p].err = "nil" /\ InsertedRowKept(p)) =>
      Inserted(p).memo =
        IF input[p].memo \in {Nil, Ptr("")}
          THEN "Sentiment: " \o sent[p].val
          ELSE "Sentiment: " \o sent[p].val \o " | " \o Deref(input[p].memo)

\* Label "negative" and caller memo "note" are stored joined.
C2_Witness ==
  \E p \in Procs :
    /\ Created(p) /\ InsertedRowKept(p)
    /\ sent[p].err = "nil" /\ sent[p].val = "negative"
    /\ input[p].memo = Ptr("note")
    /\ Inserted(p).memo = "Sentiment: negative | note"

\* C3: when both analysis calls returned an error, the inserted record has
\* the caller's riskScore (0 if absent) and the caller's memo ("" if
\* absent).
C3_FallbackToCaller ==
  \A p \in Procs :
    (Created(p) /\ risk[p].err # "nil" /\ sent[p].err # "nil"
       /\ InsertedRowKept(p)) =>
      /\ Inserted(p).riskScore =
           IF IsNil(input[p].riskScore) THEN 0 ELSE Deref(input[p].riskScore)
      /\ Inserted(p).memo =
           IF IsNil(input[p].memo) THEN "" ELSE Deref(input[p].memo)

\* Both calls failed, the caller sent riskScore 7 and memo "note", and the
\* record holds 7 and "note".
C3_Witness ==
  \E p \in Procs :
    /\ Created(p) /\ InsertedRowKept(p)
    /\ risk[p].err # "nil" /\ sent[p].err # "nil"
    /\ input[p].riskScore = Ptr(7) /\ input[p].memo = Ptr("note")
    /\ Inserted(p).riskScore = 7 /\ Inserted(p).memo = "note"

\* The progress of goroutine q's wrapper calls: the call and its attempts.
Progress(q) == <<ml[q].fn, ml[q].posts>>

\* The locals of goroutine q.
Locals(q) ==
  <<handled[q], pc[q], op[q], id[q], input[q], chat[q], Progress(q), slept[q],
    risk[q], sent[q], dbErr[q], resp[q]>>

\* The step is one of goroutine p: no other goroutine's locals change.
StepOf(p) == \A q \in Procs \ {p} : Locals(q)' = Locals(q)

\* The step is goroutine p picking up a request for handler h.
Accepts(p, h) ==
  /\ pc[p] = "idle" /\ handled'[p] = handled[p] + 1 /\ op'[p] = h
  /\ StepOf(p)

\* The text createChat reads from a bound body.
TextOf(body) == IF IsNil(body.text) THEN "" ELSE Deref(body.text)

\* C4: no outcome of the analysis calls fails a creation request.  A
\* createChat request with non-empty text goes on to the risk call; the risk
\* call, however it ends, leads to the sentiment call and the sentiment call
\* to the INSERT, neither writing a response nor touching the table; and
\* when the INSERT reports no error the response is 201 and the table has
\* gained exactly one row, under a fresh id, every other row unchanged.
C4_AnalysisFailuresAbsorbed ==
  [][\A p \in Procs :
       /\ (Accepts(p, "createChat") /\ input'[p].ok /\ TextOf(input'[p]) # "")
            => pc'[p] = "risk" /\ store' = store
       /\ (StepOf(p) /\ pc[p] = "risk" /\ Progress(p)' # Progress(p))
            => /\ pc'[p] \in {"risk", "sentiment"}
               /\ resp'[p] = NoResponse
               /\ store' = store
       /\ (StepOf(p) /\ pc[p] = "sentiment" /\ Progress(p)' # Progress(p))
            => /\ pc'[p] \in {"sentiment", "insert"}
               /\ resp'[p] = NoResponse
               /\ store' = store
       /\ (StepOf(p) /\ pc[p] = "insert" /\ pc'[p] = "idle"
             /\ dbErr'[p] = "nil")
            => /\ resp'[p].status = 201
               /\ resp'[p].body[1].id \notin DOMAIN store
               /\ DOMAIN store' = DOMAIN store \cup {resp'[p].body[1].id}
               /\ \A k \in DOMAIN store : store'[k] = store[k]
    ]_vars

\* A creation answered 201 although both analysis calls failed.
C4_Witness ==
  \E p \in Procs :
    /\ Created(p) /\ InsertedRowKept(p)
    /\ risk[p].err # "nil" /\ sent[p].err # "nil"
    /\ Cardinality(DOMAIN store) = nextId - 1

\* The client wrappers.
Wrappers == {"analyzeSuicideRisk", "analyzeSentiment"}

\* C5: one call of a client wrapper issues between 1 and 3 http.Post
\* attempts; an attempt after the first is issued only right after an
\* attempt of the same call that gave a transport error or a status other
\* than 200, never after one that gave 200.
C5_BoundedAttempts ==
  [][\A p \in Procs :
       (Progress(p)' # Progress(p) /\ ml'[p].fn \in Wrappers) =>
         /\ ml'[p].posts \in 1..3
         /\ ml'[p].posts > 1 =>
              /\ ml[p].fn = ml'[p].fn
              /\ ml[p].state = "loop"
              /\ ml[p].posts = ml'[p].posts - 1
              /\ ~AttemptSucceeded(ml[p])
         /\ ml'[p].posts = 1 => (ml[p].fn # ml'[p].fn \/ ml[p].posts = 0)
    ]_vars

\* A call that used all three attempts, the third after a non-200 status.
C5_Witness ==
  \E p \in Procs :
    /\ ml[p].fn = "analyzeSentiment" /\ ml[p].state = "returned"
    /\ ml[p].posts = 3 /\ ml[p].status = 500

\* A wrapper call of p has returned and its frame is still at hand.
WrapperReturned(p) == ml[p].fn \in Wrappers /\ ml[p].state = "returned"

\* What the returned wrapper call gave createChat.
WrapperResult(p) ==
  IF ml[p].fn = "analyzeSuicideRisk" THEN risk[p] ELSE sent[p]

\* C6 as claimed: when the first 200 response comes on attempt k, the
\* wrapper returns the value decoded from it after k-1 sleeps; when all 3
\* attempts fail it has slept twice.
C6_Original ==
  \A p \in Procs :
    WrapperReturned(p) =>
      IF AttemptSucceeded(ml[p])
        THEN /\ WrapperResult(p).err = "nil"
             /\ ml[p].body # <<>>
             /\ WrapperResult(p).val = ResultOf(ml[p].body[1])
             /\ ml[p].sleeps = ml[p].posts - 1
        ELSE ml[p].posts = 3 /\ ml[p].sleeps = 2

\* C6: when the first 200 response comes on attempt k, the wrapper has slept
\* k-1 times and makes no further attempt; it returns the value decoded from
\* that response if the body decodes, and an error if it does not.  When all
\* 3 attempts fail it has slept twice.
C6_DelaysAndResult ==
  \A p \in Procs :
    WrapperReturned(p) =>
      IF AttemptSucceeded(ml[p])
        THEN /\ ml[p].sleeps = ml[p].posts - 1
             /\ IF ml[p].body # <<>>
                  THEN WrapperResult(p) =
                         [val |-> ResultOf(ml[p].body[1]), err |-> "nil"]
                  ELSE WrapperResult(p).err = "decode"
        ELSE /\ ml[p].posts = 3 /\ ml[p].sleeps = 2
             /\ WrapperResult(p).err \notin {"nil", "decode"}

\* Two failed attempts, then a 200 with score 88: 88 is returned after two
\* sleeps.
C6_Witness ==
  \E p \in Procs :
    /\ WrapperReturned(p) /\ ml[p].fn = "analyzeSuicideRisk"
    /\ ml[p].posts = 3 /\ ml[p].sleeps = 2 /\ AttemptSucceeded(ml[p])
    /\ risk[p] = [val |-> 88, err |-> "nil"]

\* C7: a createChat request whose text is missing or empty is answered 400
\* at once: the table and the id sequence are unchanged, no http.Post has
\* been issued and the handler has ended, so none will be.
C7_MissingTextRejected ==
  [][\A p \in Procs :
       (Accepts(p, "createChat") /\ input'[p].ok /\ TextOf(input'[p]) = "") =>
         /\ resp'[p].status = 400
         /\ pc'[p] = "idle"
         /\ ml'[p].posts = 0
         /\ store' = store /\ nextId' = nextId /\ touched' = touched
    ]_vars

\* A body with an empty text and one without text were both answered 400.
C7_Witness ==
  \E p \in Procs :
    /\ pc[p] = "idle" /\ op[p] = "createChat" /\ resp[p].status = 400
    /\ input[p].ok /\ input[p].text \in {Nil, Ptr("")}
    /\ input[p].riskScore = Ptr(7)
    /\ ml[p].posts = 0 /\ store \in InitialTables /\ store # <<>>

\* The body holds text and nothing else.
TextOnly(body) ==
  /\ body.ok /\ ~IsNil(body.text) /\ Deref(body.text) # ""
  /\ IsNil(body.startWithDoctor) /\ IsNil(body.riskScore) /\ IsNil(body.memo)

FieldReplaced(new, old, body, f) ==
  new[f] = IF IsNil(body[f]) THEN old[f] ELSE Deref(body[f])

\* C9: when updateChat's UPDATE runs on a row that is still as the handler
\* read it, it changes no other row, adds or removes none, and keeps the
\* row's id and createdAt; when the store reports no error the answer is 200
\* and each of startWithDoctor, text, riskScore and memo holds the body's
\* value if the body has the field and its old value if not; when the store
\* reports an error the row is unchanged.
C9_UpdateReplacesPresentFields ==
  [][\A p \in Procs :
       (StepOf(p) /\ pc[p] = "update" /\ pc'[p] = "idle"
          /\ id[p] \in DOMAIN store /\ store[id[p]] = chat[p]) =>
         /\ DOMAIN store' = DOMAIN store
         /\ \A k \in DOMAIN store \ {id[p]} : store'[k] = store[k]
         /\ store'[id[p]].id = store[id[p]].id
         /\ store'[id[p]].createdAt = store[id[p]].createdAt
         /\ IF dbErr'[p] = "nil"
              THEN /\ resp'[p].status = 200
                   /\ \A f \in {"startWithDoctor", "text", "riskScore", "memo"} :
                        FieldReplaced(store'[id[p]], store[id[p]], input[p], f)
              ELSE store'[id[p]] = store[id[p]]
    ]_vars

\* An update of row 1 with memo alone was answered 200: the memo is the
\* new one, every other field and row 2 are as before.
C9_Witness ==
  \E p \in Procs :
    /\ pc[p] = "idle" /\ op[p] = "updateChat" /\ resp[p].status = 200
    /\ id[p] = 1 /\ input[p] = Body(Nil, Nil, Nil, Ptr("seen"))
    /\ store = <<[Row1 EXCEPT !.memo = "seen"], Row2>>

\* C10: a getChat for the id of a record createChat has returned with 201,
\* accepted before any UPDATE or DELETE changed that row and answered without
\* a store error, returns 200 with the same id, startWithDoctor, text,
\* riskScore and memo, and a createdAt within half a column unit of the
\* returned one.
C10_CreateThenGet ==
  [][\A p, q \in Procs :
       (Created(p) /\ Returned(p).id \notin touched
          /\ Accepts(q, "getChat") /\ id'[q] = Returned(p).id
          /\ dbErr'[q] # "error") =>
         /\ resp'[q].status = 200
         /\ LET G == resp'[q].body[1]
                R == Returned(p)
            IN /\ G.id = R.id
               /\ G.startWithDoctor = R.startWithDoctor
               /\ G.text = R.text
               /\ G.riskScore = R.riskScore
               /\ G.memo = R.memo
               /\ 2 * (G.createdAt - R.createdAt) <= TicksPerUnit
               /\ 2 * (R.createdAt - G.createdAt) <= TicksPerUnit
    ]_vars

\* A record created at a time between two column units, then fetched: the
\* fetched record equals the returned one but for the rounded createdAt.
C10_Witness ==
  \E p, q \in Procs :
    /\ Created(p) /\ InsertedRowKept(p)
    /\ pc[q] = "idle" /\ op[q] = "getChat" /\ id[q] = Returned(p).id
    /\ resp[q].status = 200
    /\ resp[q].body[1].createdAt # Returned(p).createdAt
    /\ resp[q].body[1] =
         [Returned(p) EXCEPT !.createdAt = resp[q].body[1].createdAt]

\* C11: once deleteChat has answered 200 for an id, no row with that id is
\* in the table again; a getChat of the id accepted later, when the store
\* reports no error, answers 404; and an updateChat that had read the row
\* before the delete and runs its UPDATE after it answers 404 and leaves the
\* table as it is.
C11_DeletedStaysDeleted ==
  [][\A p \in Procs :
       /\ \A i \in deleted : i \notin DOMAIN store /\ i \notin DOMAIN store'
       /\ (Accepts(p, "getChat") /\ id'[p] \in deleted /\ dbErr'[p] # "error")
            => resp'[p].status = 404
       /\ (StepOf(p) /\ pc[p] = "update" /\ pc'[p] = "idle"
             /\ id[p] \in deleted /\ dbErr'[p] # "error")
            => resp'[p].status = 404 /\ store' = store
    ]_vars

\* updateChat read row 1, deleteChat then answered 200 for id 1, and the
\* update's write came after it: answered 404, row 1 still gone.
C11_Witness ==
  \E p, q \in Procs :
    /\ pc[p] = "idle" /\ op[p] = "updateChat" /\ resp[p].status = 404
    /\ id[p] = 1 /\ chat[p].id = 1
    /\ op[q] = "deleteChat" /\ id[q] = 1 /\ resp[q].status = 200
    /\ 1 \in deleted /\ 1 \notin DOMAIN store

Creating(p) == pc[p] \in {"risk", "sentiment", "insert"}

\* C13: the createdAt of the Chat createChat builds is the server's clock
\* reading at that moment, whatever the body holds, and stays so up to the
\* INSERT, which stores it at the column's resolution; thereafter no step
\* of any handler changes the createdAt of a row that stays in the table.
C13_CreatedAtServerSetAndImmutable ==
  [][\A p \in Procs :
       /\ (Accepts(p, "createChat") /\ Creating(p)') =>
            chat'[p].createdAt = clock' /\ clock' >= clock
       /\ (StepOf(p) /\ Creating(p)) =>
            /\ chat'[p].createdAt = chat[p].createdAt
            /\ \A i \in DOMAIN store' \ DOMAIN store :
                 store'[i].createdAt = ToTimestamp(chat[p].createdAt)
       /\ \A i \in DOMAIN store \cap DOMAIN store' :
            store'[i].createdAt = store[i].createdAt
    ]_vars

\* A record created from a body with a createdAt key, then updated with a
\* body with a createdAt key: its createdAt is still the creation time.
C13_Witness ==
  \E p, q \in Procs :
    /\ Created(p) /\ ~IsNil(input[p].createdAt)
    /\ pc[q] = "idle" /\ op[q] = "updateChat" /\ resp[q].status = 200
    /\ id[q] = Returned(p).id /\ ~IsNil(input[q].createdAt)
    /\ Returned(p).createdAt = 1
    /\ store[id[q]].createdAt = ToTimestamp(1)
    /\ store[id[q]].memo = "seen"

\* The handlers addressed to one record by its id.
ByIdHandlers == {"getChat", "updateChat", "deleteChat"}

\* C14: a getChat, updateChat or deleteChat for an id that has no row, when
\* the store reports no error, is answered 404 at once and leaves the table
\* and the id sequence as they are; so is the UPDATE of an updateChat whose
\* row is gone by then; and whenever the answer of one of these handlers is
\* 500, the store reported an error to it.
C14_NotFoundIs404 ==
  [][\A p \in Procs :
       /\ \A h \in ByIdHandlers :
            (Accepts(p, h) /\ id'[p] \notin DOMAIN store
               /\ dbErr'[p] # "error") =>
              /\ resp'[p].status = 404 /\ pc'[p] = "idle"
              /\ store' = store /\ nextId' = nextId
       /\ (StepOf(p) /\ pc[p] = "update" /\ pc'[p] = "idle"
             /\ id[p] \notin DOMAIN store /\ dbErr'[p] # "error") =>
            resp'[p].status = 404 /\ store' = store /\ nextId' = nextId
       /\ (op'[p] \in ByIdHandlers /\ resp'[p].status = 500) =>
            dbErr'[p] = "error"
    ]_vars

\* An updateChat and a deleteChat for id 2, which has no row, were both
\* answered 404 and the table is as it was.
C14_Witness ==
  \E p, q \in Procs :
    /\ pc[p] = "idle" /\ op[p] = "updateChat" /\ id[p] = 2
    /\ resp[p].status = 404 /\ dbErr[p] = "ErrNoRows"
    /\ pc[q] = "idle" /\ op[q] = "deleteChat" /\ id[q] = 2
    /\ resp[q].status = 404 /\ dbErr[q] = "nil"
    /\ store = <<Row1>> /\ nextId = 2 /\ deleted = {}

\* C15: a processChat request whose body binds calls callLLMDirect once,
\* which calls GenerateContent at most once (not at all when the client
\* cannot be created) and has returned when the handler ends: nothing is
\* retried.  If the call failed in any way the answer is 500; otherwise it
\* is 200 with the updatedText and startWithDoctor the service gave and the
\* createdAt and memo of the request.  No later step adds an attempt.
C15_SingleAttempt ==
  [][\A p \in Procs :
       /\ (Accepts(p, "processChat") /\ input'[p].ok) =>
            /\ pc'[p] = "idle"
            /\ ml'[p].fn = "callLLMDirect" /\ ml'[p].state = "returned"
            /\ ml'[p].posts <= 1
            /\ LET o == ml'[p].body[1]
               IN IF o.kind \in LLMFailures
                    THEN resp'[p] = Response(500, <<>>)
                    ELSE /\ ml'[p].posts = 1
                         /\ resp'[p] =
                              Response(200,
                                <<[createdAt |-> Deref(input'[p].createdAt),
                                   text |-> o.updatedText,
                                   memo |-> Deref(input'[p].memo),
                                   startWithDoctor |-> o.startWithDoctor]>>)
       /\ (ml[p].fn = "callLLMDirect" /\ Progress(p)' # Progress(p)) =>
            Accepts(p, op'[p])
    ]_vars

\* One request answered 200 with the marked text and the flag after one
\* GenerateContent call, another answered 500 after a response without
\* candidates.
C15_Witness ==
  \E p, q \in Procs :
    /\ op[p] = "processChat" /\ ml[p].posts = 1
    /\ resp[p] = Response(200, <<[createdAt |-> "2023-04-11",
                                  text |-> "hello@@", memo |-> "note",
                                  startWithDoctor |-> TRUE]>>)
    /\ op[q] = "processChat" /\ ml[q].posts = 1
    /\ ml[q].body[1].kind = "noCandidates" /\ resp[q].status = 500

\* C16: a processChat request (POST /processChat or POST /analyze, the same
\* handler) leaves the table and the id sequence as they are, whether it is
\* answered 200, 400 or 500.
C16_ProcessChatPersistsNothing ==
  [][\A p \in Procs :
       Accepts(p, "processChat") =>
         /\ resp'[p].status \in {200, 400, 500}
         /\ store' = store /\ nextId' = nextId
         /\ touched' = touched /\ deleted' = deleted
    ]_vars

\* Two processChat requests, one answered 200 and one 500, and the table is
\* the one the service started on.
C16_Witness ==
  \E p, q \in Procs :
    /\ op[p] = "processChat" /\ resp[p].status = 200
    /\ op[q] = "processChat" /\ resp[q].status = 500
    /\ store = <<Row1, Row2>> /\ nextId = 3 /\ touched = {}

\* The wrapper call whose frame goroutine p holds is a call of fn that has
\* completed: by a 200 response or by using up its attempts.
Completed(w, fn) ==
  /\ w.fn = fn /\ w.state = "returned" /\ w.posts >= 1
  /\ AttemptSucceeded(w) \/ w.posts = mlAPIMaxRetries

\* C17 as claimed: chat's riskScore and memo are merged, and the INSERT
\* runs, only when both the risk call and the sentiment call have
\* completed: while the sentiment call has not returned, chat.RiskScore is
\* still the zero value createChat started with.
C17_Original ==
  \A p \in Procs :
    (Creating(p) /\ pc[p] # "insert") =>
      chat[p].riskScore = 0 /\ chat[p].memo = ""

\* C17: in one createChat request the risk call comes first and chat's
\* riskScore is merged as soon as it has completed, before the sentiment
\* call; the sentiment call follows whether the risk call succeeded or
\* failed, and chat's memo is merged when it has completed; the INSERT, the
\* only step of the request that changes the table, runs after both calls
\* have completed and both merges are done.
C17_MergeAfterCalls ==
  [][\A p \in Procs :
       /\ pc[p] = "risk" => chat[p].riskScore = 0 /\ chat[p].memo = ""
       /\ (StepOf(p) /\ pc[p] = "risk" /\ pc'[p] # "risk") =>
            /\ pc'[p] = "sentiment"
            /\ Completed(ml'[p], "analyzeSuicideRisk")
            /\ chat'[p].riskScore = MergeRiskScore(risk'[p], input[p].riskScore)
            /\ chat'[p].memo = ""
       /\ (StepOf(p) /\ pc[p] = "sentiment" /\ pc'[p] # "sentiment") =>
            /\ pc'[p] = "insert"
            /\ Completed(ml'[p], "analyzeSentiment")
            /\ chat'[p].riskScore = chat[p].riskScore
            /\ chat'[p].memo = MergeMemo(sent'[p], input[p].memo)
       /\ (StepOf(p) /\ op[p] = "createChat" /\ op'[p] = "createChat"
             /\ store' # store) =>
            /\ pc[p] = "insert"
            /\ chat[p].riskScore = MergeRiskScore(risk[p], input[p].riskScore)
            /\ chat[p].memo = MergeMemo(sent[p], input[p].memo)
    ]_vars

\* A creation whose risk call used up its attempts and whose sentiment call
\* then succeeded: the record holds the caller's score and the joined memo.
C17_Witness ==
  \E p \in Procs :
    /\ Created(p) /\ InsertedRowKept(p)
    /\ risk[p].err = "attempts" /\ sent[p] = [val |-> "negative", err |-> "nil"]
    /\ input[p].riskScore = Ptr(7) /\ input[p].memo = Ptr("note")
    /\ Inserted(p).riskScore = 7
    /\ Inserted(p).memo = "Sentiment: negative | note"

\* The record a createChat request of goroutine p is to leave: the caller's
\* text and startWithDoctor, the merged riskScore and memo, the time the
\* handler read.
FinalRecord(p, i) ==
  [id |-> i,
   startWithDoctor |-> IF IsNil(input[p].startWithDoctor) THEN FALSE
                       ELSE Deref(input[p].startWithDoctor),
   text |-> TextOf(input[p]),
   riskScore |-> MergeRiskScore(risk[p], input[p].riskScore),
   memo |-> MergeMemo(sent[p], input[p].memo),
   createdAt |-> ToTimestamp(chat[p].createdAt)]

\* C18: every step of a createChat request leaves the table as it is, but
\* for the INSERT when the store reports no error: that one step adds one
\* row, whole, with its final startWithDoctor, text, riskScore, memo and
\* createdAt, changes no other row and ends the handler.  So a request that
\* stops before its INSERT, or whose INSERT fails (answered 500), leaves no
\* trace in the table, and no row is ever there with its enrichment still
\* to come.
C18_SingleInsertStep ==
  [][\A p \in Procs :
       (StepOf(p) /\ op'[p] = "createChat") =>
         IF pc[p] = "insert" /\ dbErr'[p] = "nil"
           THEN /\ nextId \notin DOMAIN store
                /\ DOMAIN store' = DOMAIN store \cup {nextId}
                /\ \A k \in DOMAIN store : store'[k] = store[k]
                /\ store'[nextId] = FinalRecord(p, nextId)
                /\ pc'[p] = "idle" /\ resp'[p].status = 201
           ELSE /\ store' = store
                /\ pc[p] = "insert" => resp'[p].status = 500 /\ pc'[p] = "idle"
    ]_vars

\* A request whose analyses both succeeded and whose INSERT failed: answered
\* 500, the table is the one the service started on.
C18_Witness ==
  \E p \in Procs :
    /\ pc[p] = "idle" /\ op[p] = "createChat"
    /\ resp[p].status = 500 /\ dbErr[p] = "error"
    /\ chat[p].riskScore = 88 /\ chat[p].memo = "Sentiment: negative | note"
    /\ store = <<Row1, Row2>> /\ nextId = 3

\* C19 as claimed: over one creation request the retry loops sleep at most
\* attempts x delay, 3 delays of 2 seconds.
C19_Original ==
  \A p \in Procs :
    slept[p] * mlAPIRetryDelay <= mlAPIMaxRetries * mlAPIRetryDelay

\* C19: one call of a client wrapper sleeps at most attempts-1 = 2 times (4
\* seconds), exactly so when every attempt failed; a creation request makes
\* two such calls in a row and so sleeps at most 4 times in all (8 seconds)
\* before its INSERT.
C19_RetryWaitBound ==
  \A p \in Procs :
    /\ ml[p].sleeps <= mlAPIMaxRetries - 1
    /\ slept[p] <= 2 * (mlAPIMaxRetries - 1)
    /\ slept[p] * mlAPIRetryDelay <= 8
    /\ (WrapperReturned(p) /\ ~AttemptSucceeded(ml[p])) =>
         ml[p].sleeps = mlAPIMaxRetries - 1
    /\ pc[p] = "risk" => slept[p] = ml[p].sleeps

\* A creation whose six attempts all failed: it slept four times and was
\* answered 201 with the caller's values.
C19_Witness ==
  \E p \in Procs :
    /\ Created(p) /\ slept[p] = 4
    /\ risk[p].err # "nil" /\ sent[p].err # "nil"

\* C20 as claimed: in every reachable state the riskScore of every row is 0
\* or an integer from 1 to 100.
C20_RiskScoreInRange ==
  \A i \in DOMAIN store : store[i].riskScore \in 0..100

\* C21: of two creation requests that agree on what the risk call returned
\* and on the caller's riskScore, the records have the same riskScore,
\* whatever the sentiment call returned and whatever the caller's memo was;
\* of two that agree on what the sentiment call returned and on the
\* caller's memo, the records have the same memo, whatever the risk call
\* returned and whatever the caller's riskScore was.
C21_FieldsDecidedIndependently ==
  \A p, q \in Procs :
    (Created(p) /\ Created(q) /\ InsertedRowKept(p) /\ InsertedRowKept(q)) =>
      /\ (risk[p] = risk[q] /\ input[p].riskScore = input[q].riskScore) =>
           Inserted(p).riskScore = Inserted(q).riskScore
      /\ (sent[p] = sent[q] /\ input[p].memo = input[q].memo) =>
           Inserted(p).memo = Inserted(q).memo

\* Two records from requests whose risk calls both failed and whose callers
\* both sent riskScore 7: one sentiment call failed, the other succeeded,
\* one caller sent a memo, the other none; the riskScore is 7 in both.
C21_Witness ==
  \E p, q \in Procs :
    /\ Created(p) /\ Created(q) /\ InsertedRowKept(p) /\ InsertedRowKept(q)
    /\ risk[p] = risk[q] /\ risk[p].err # "nil"
    /\ input[p].riskScore = Ptr(7) /\ input[q].riskScore = Ptr(7)
    /\ sent[p].err # "nil" /\ sent[q].err = "nil"
    /\ input[p].memo = Ptr("note") /\ input[q].memo = Nil
    /\ Inserted(p).riskScore = 7 /\ Inserted(q).riskScore = 7
    /\ Inserted(p).memo # Inserted(q).memo

\* C22 as claimed: a wrapper returns an error only after 3 attempts, none
\* of which gave a 200 response.
C22_Original ==
  \A p \in Procs :
    (WrapperReturned(p) /\ WrapperResult(p).err # "nil") =>
      ml[p].posts = mlAPIMaxRetries /\ ~AttemptSucceeded(ml[p])

\* C22: a wrapper returns an error in two cases only.  Either all 3
\* attempts failed, and the error is that of the third attempt: its
\* transport error if it had one, else its status.  Or an attempt, the
\* first, second or third, gave a 200 response whose body does not decode:
\* the wrapper returns the decode error and makes no further attempt.
C22_FailureResults ==
  \A p \in Procs :
    (WrapperReturned(p) /\ WrapperResult(p).err # "nil") =>
      IF AttemptSucceeded(ml[p])
        THEN /\ WrapperResult(p).err = "decode"
             /\ ml[p].body = <<>>
             /\ ml[p].posts \in 1..mlAPIMaxRetries
        ELSE /\ ml[p].posts = mlAPIMaxRetries
             /\ WrapperResult(p).err =
                  IF ml[p].err # "nil" THEN "attempts" ELSE "status"

\* analyzeSuicideRisk returned the transport error of its third attempt.
C22_Witness ==
  \E p \in Procs :
    /\ WrapperReturned(p) /\ ml[p].fn = "analyzeSuicideRisk"
    /\ ml[p].posts = 3 /\ ml[p].err = "transport"
    /\ risk[p] = [val |-> 0, err |-> "attempts"]

\* The fields an update body may hold.
UpdateFields == {"startWithDoctor", "text", "riskScore", "memo"}

\* Goroutine p's updateChat has answered 200.
Updated(p) == pc[p] = "idle" /\ op[p] = "updateChat" /\ resp[p].status = 200

\* C23 as claimed: when two updateChat requests for the same record, with
\* bodies that hold no field in common, have both answered 200 and the row
\* is still there, the row holds the value of every field either body
\* holds.
C23_NoLostUpdate ==
  \A p, q \in Procs :
    (/\ p # q /\ Updated(p) /\ Updated(q)
     /\ id[p] = id[q] /\ id[p] \in DOMAIN store
     /\ \A f \in UpdateFields : IsNil(input[p][f]) \/ IsNil(input[q][f])) =>
      \A r \in {p, q}, f \in UpdateFields :
        ~IsNil(input[r][f]) => store[id[r]][f] = Deref(input[r][f])

\* C24: provided every http.Post and every store call returns, a createChat
\* request under way is in the end answered 201 or 500 (one that fails its
\* bind or its text check is answered 400 at once and is never under way);
\* on the way each wrapper call makes at most 3 attempts, and the answer
\* comes with the INSERT, the handler's one store call.
C24_CreateChatResponds ==
  /\ \A p \in Procs :
       Creating(p) ~> (pc[p] = "idle" /\ resp[p].status \in {201, 500})
  /\ [](\A p \in Procs :
         /\ ml[p].posts <= mlAPIMaxRetries
         /\ (pc[p] = "idle" /\ op[p] = "createChat") =>
              resp[p].status \in {201, 400, 500})

\* A request whose six attempts all failed has been answered.
C24_Witness ==
  \E p \in Procs :
    /\ pc[p] = "idle" /\ op[p] = "createChat" /\ resp[p].status = 201
    /\ slept[p] = 4 /\ risk[p].err = "status" /\ sent[p].err = "attempts"

\* C25 as claimed: in every reachable state the text of every row is
\* non-empty.
C25_TextNonEmpty ==
  \A i \in DOMAIN store : store[i].text # ""

\* C26 as claimed: of any two rows, the one with the larger id has a
\* createdAt that is not earlier than the other's.
C26_Original ==
  \A i, j \in DOMAIN store :
    i < j => store[i].createdAt <= store[j].createdAt

\* C26: createdAt follows the order in which requests are picked up, not
\* the order of the INSERTs.  When createChat builds its Chat, the time it
\* reads is not earlier than the createdAt of any request still under way,
\* and, at the column's resolution, not earlier than that of any row
\* already in the table; so a request picked up after another's INSERT
\* gives the row with the larger id a createdAt that is not earlier.
C26_CreatedAtFollowsAcceptance ==
  [][\A p \in Procs :
       (Accepts(p, "createChat") /\ Creating(p)') =>
         /\ \A i \in DOMAIN store :
              store[i].createdAt <= ToTimestamp(chat'[p].createdAt)
         /\ \A q \in Procs \ {p} :
              Creating(q) => chat[q].createdAt <= chat'[p].createdAt
    ]_vars

\* Two records created in this run: the one inserted later was picked up at
\* a later time and has the later createdAt.
C26_Witness ==
  \E p, q \in Procs :
    /\ Created(p) /\ Created(q) /\ InsertedRowKept(p) /\ InsertedRowKept(q)
    /\ Returned(p).id < Returned(q).id
    /\ Returned(p).createdAt < Returned(q).createdAt
    /\ Inserted(p).createdAt < Inserted(q).createdAt
====
